---- MODULE Spec2Model ----
(***************************************************************************)
(* Session handling of the WMS API (routes/auth.routes.ts): POST /login,   *)
(* POST /refresh and POST /logout over the users and refresh_tokens        *)
(* tables.  Every handler is split at its awaits on the database, so that  *)
(* concurrent requests interleave exactly where the code can be            *)
(* interleaved.                                                            *)
(***************************************************************************)
EXTENDS Integers, Sequences, FiniteSets, TLC

(* ------------------------------ bounds --------------------------------- *)

\* Refresh tokens signed over a run.
MaxTokens == 2

\* Two Refresh requests can be in flight at once; a request takes the first
\* free slot.
Slots == {"a", "b"}

(* ------------------------- program constants --------------------------- *)

\* 7 * 24 * 60 * 60 * 1000 ms, the lifetime given to every row.
SevenDays == 7 * 24 * 60 * 60 * 1000

\* revokedAt: null
NoTime == -1

\* The instants the clock is read at: the start, and the expiry instant of a
\* row created at the start and the millisecond after it.
TimePoints == {0, SevenDays, SevenDays + 1}

(* ------------------------------ @wms/auth ------------------------------ *)

\* bcrypt digest of a plaintext password.
hashPassword(plain) == <<"bcrypt", plain>>

verifyPassword(plain, hash) == hash = hashPassword(plain)

\* crypto.createHash("sha256").update(raw).digest("hex")
Sha256(raw) == <<"sha256", raw>>

signAccessToken(claims, at) ==
    [typ |-> "access", sig |-> "ok", id |-> claims.id, email |-> claims.email,
     role |-> claims.role, iat |-> at, serial |-> 0]

\* The serial stands for whatever makes two signed tokens differ.
signRefreshToken(claims, at, serial) ==
    [typ |-> "refresh", sig |-> "ok", id |-> claims.id, email |-> claims.email,
     role |-> claims.role, iat |-> at, serial |-> serial]

\* Whether verifyRefreshToken(raw) returns (TRUE) or throws (FALSE), given
\* whether the token's own validity window has run out.
verifyRefreshToken(raw, windowOver) ==
    raw.typ = "refresh" /\ raw.sig = "ok" /\ ~windowOver

(* ------------------------------- users --------------------------------- *)

Emails == {"a@x.com", "b@x.com", "c@x.com", "nobody@x.com"}
Passwords == {"secret123", "hunter22"}

\* The users table: an active STAFF user, a deactivated MANAGER and a user
\* created without a password.
SeedUsers ==
    [u \in {"u1", "u2", "u3"} |->
        CASE u = "u1" -> [id |-> "u1", email |-> "a@x.com", name |-> "Ann",
                          password |-> <<hashPassword("secret123")>>,
                          role |-> "STAFF", active |-> TRUE]
          [] u = "u2" -> [id |-> "u2", email |-> "b@x.com", name |-> "Bob",
                          password |-> <<hashPassword("hunter22")>>,
                          role |-> "MANAGER", active |-> FALSE]
          [] OTHER    -> [id |-> "u3", email |-> "c@x.com", name |-> "Cy",
                          password |-> <<>>,
                          role |-> "STAFF", active |-> TRUE]]

\* A token with a bad signature, and a well signed token whose row is not in
\* the table (rows are purged by an external retention job).
ForgedToken ==
    [typ |-> "refresh", sig |-> "bad", id |-> "u1", email |-> "a@x.com",
     role |-> "STAFF", iat |-> 0, serial |-> -2]
OrphanToken ==
    [typ |-> "refresh", sig |-> "ok", id |-> "u1", email |-> "a@x.com",
     role |-> "STAFF", iat |-> 0, serial |-> -1]

(* ------------------------------ responses ------------------------------ *)

NoResponse ==
    [status |-> 0, code |-> "", message |-> "", accessToken |-> <<>>,
     refreshToken |-> <<>>, user |-> <<>>]

ErrorResponse(status, code, message) ==
    [NoResponse EXCEPT !.status = status, !.code = code, !.message = message]

InvalidCredentials ==
    ErrorResponse(401, "INVALID_CREDENTIALS", "Invalid email or password")

AccountDisabled == ErrorResponse(403, "ACCOUNT_DISABLED", "Account is disabled")

InvalidOrExpiredToken ==
    ErrorResponse(401, "INVALID_TOKEN", "Invalid or expired refresh token")

InvalidToken == ErrorResponse(401, "INVALID_TOKEN", "Invalid refresh token")

\* What the error handler answers when a handler throws.
InternalError == ErrorResponse(500, "INTERNAL_ERROR", "")

\* Mutant: a Login that has written its row is answered as a disabled account.
LoginOkRefused(access, refresh, user) == AccountDisabled

LoginOk(access, refresh, user) ==
    [NoResponse EXCEPT !.status = 200, !.accessToken = <<access>>,
        !.refreshToken = <<refresh>>,
        !.user = <<[id |-> user.id, email |-> user.email, name |-> user.name,
                    role |-> user.role]>>]

RefreshOk(access, refresh) ==
    [NoResponse EXCEPT !.status = 200, !.accessToken = <<access>>,
        !.refreshToken = <<refresh>>]

LogoutOk == [NoResponse EXCEPT !.status = 200, !.code = "success"]

(* -------------------------------- state -------------------------------- *)

VARIABLES
    users,          \* users table: id -> row
    refreshTokens,  \* refresh_tokens table: sequence of rows, id = position
    now,            \* the clock (ms)
    req,            \* the request each slot is serving, between its awaits
    out,            \* the last request answered, with its response
    serials,        \* refresh tokens signed so far
    issued,         \* raw refresh tokens handed to callers
    loggedOut,      \* raw tokens a completed Logout was called with
    rotated,        \* <<T0, T1>>: a Refresh presenting T0 returned T1
    jobs,           \* the products queue: the jobs enqueued so far
    webUser,        \* the web client's signed-in user: <<user>> or <<>>
    compactMode,    \* the web client's layout mode
    location        \* the web client's current pathname

\* The state of the auth and admin routes, of the import route's queue and
\* of the web client.
authVars == <<users, refreshTokens, req, serials, issued, loggedOut, rotated>>
webVars == <<webUser, compactMode, location>>

vars == <<authVars, now, out, jobs, webVars>>

\* A request: its input, what it has read so far, what it has signed (the
\* serial of its refresh token is set aside when it passes the checks), and
\* its response once it has one.  afterLogout and afterRotation record
\* whether the request arrived after a Logout of its token had completed,
\* and after a Refresh of its token had succeeded; wasRevoked records
\* whether the row was already revoked when the request's own update ran.
Idle ==
    [op |-> "none", pc |-> "idle", email |-> "", password |-> "",
     token |-> <<>>, user |-> <<>>, stored |-> <<>>, at |-> 0,
     verified |-> FALSE, serial |-> 0, accessToken |-> <<>>,
     refreshToken |-> <<>>, expiresAt |-> 0,
     afterLogout |-> FALSE, afterRotation |-> FALSE, wasRevoked |-> FALSE,
     resp |-> NoResponse]

Init ==
    /\ users = SeedUsers
    /\ refreshTokens = <<>>
    /\ now = 0
    /\ req = [s \in Slots |-> Idle]
    /\ out = Idle
    /\ serials = 0
    /\ issued = {}
    /\ loggedOut = {}
    /\ rotated = {}
    /\ jobs = <<>>
    /\ webUser = <<>>
    /\ compactMode = FALSE
    /\ location = "/login"

(* --------------------------- prisma queries ---------------------------- *)

\* Mutant: findUnique by email finds nobody.
FindUserByEmailNever(email) == <<>>

\* prisma.user.findUnique({ where: { email } }): <<row>> or <<>>
FindUserByEmail(email) ==
    LET found == {u \in DOMAIN users : users[u].email = email}
    IN  IF found = {} THEN <<>> ELSE <<users[CHOOSE u \in found : TRUE]>>

\* prisma.refreshToken.findUnique({ where: { token } }): <<row with id>> or <<>>
FindRefreshToken(tokenHash) ==
    LET found == {i \in DOMAIN refreshTokens : refreshTokens[i].token = tokenHash}
    IN  IF found = {} THEN <<>>
        ELSE LET i == CHOOSE i \in found : TRUE
             IN  <<[id |-> i, token |-> refreshTokens[i].token,
                    userId |-> refreshTokens[i].userId,
                    expiresAt |-> refreshTokens[i].expiresAt,
                    revokedAt |-> refreshTokens[i].revokedAt,
                    createdAt |-> refreshTokens[i].createdAt]>>

\* Mutant: the token column has no unique index.
TokenConflictNever(tokenHash) == FALSE

\* The unique index on refresh_tokens.token rejects a second row with the hash.
TokenConflict(tokenHash) ==
    \E i \in DOMAIN refreshTokens : refreshTokens[i].token = tokenHash

\* Mutant: the insert is left out.
CreateRefreshTokenDropped(tokenHash, userId, expiresAt) == refreshTokens

\* prisma.refreshToken.create({ data: { token, userId, expiresAt } })
CreateRefreshToken(tokenHash, userId, expiresAt) ==
    Append(refreshTokens,
           [token |-> tokenHash, userId |-> userId, expiresAt |-> expiresAt,
            revokedAt |-> NoTime, createdAt |-> now])

\* Mutant: the update is keyed by the row's user, not by its id.
RevokeByIdWholeUser(id) ==
    [i \in DOMAIN refreshTokens |->
        IF refreshTokens[i].userId = refreshTokens[id].userId
        THEN [refreshTokens[i] EXCEPT !.revokedAt = now]
        ELSE refreshTokens[i]]

\* Mutant: the update stamps expiresAt, not revokedAt.
RevokeByIdExpiring(id) ==
    [refreshTokens EXCEPT ![id].expiresAt = now]

\* Mutant: the update of the presented row is left out.
RevokeByIdNothing(id) == refreshTokens

\* prisma.refreshToken.update({ where: { id }, data: { revokedAt: new Date() } })
RevokeById(id) ==
    [refreshTokens EXCEPT ![id].revokedAt = now]

\* Mutant: the matching rows are deleted (deleteMany).
RevokeByHashDeleting(tokenHash) ==
    SelectSeq(refreshTokens, LAMBDA row : row.token # tokenHash)

\* Mutant: updateMany matches no row.
RevokeByHashNothing(tokenHash) == refreshTokens

\* prisma.refreshToken.updateMany({ where: { token }, data: { revokedAt } })
RevokeByHash(tokenHash) ==
    [i \in DOMAIN refreshTokens |->
        IF refreshTokens[i].token = tokenHash
        THEN [refreshTokens[i] EXCEPT !.revokedAt = now]
        ELSE refreshTokens[i]]

\* The validity check of /refresh on the looked-up row.
\* Mutant: the token of a deactivated user is refused.
RejectedInactive(stored) ==
    \/ stored = <<>>
    \/ stored[1].revokedAt # NoTime
    \/ stored[1].expiresAt < now
    \/ ~users[stored[1].userId].active

Rejected(stored) ==
    \/ stored = <<>>
    \/ stored[1].revokedAt # NoTime
    \/ stored[1].expiresAt < now

(* -------------------------------- helpers ------------------------------ *)

\* A request is served by the first free slot.
Free(s) == req[s].pc = "idle" /\ (s = "b" => req["a"].pc # "idle")

\* Mutant: the role is not taken from the user row.
ClaimsStaff(user) == [id |-> user.id, email |-> user.email, role |-> "STAFF"]

\* The claims the handlers hand to the signer.
Claims(user) == [id |-> user.id, email |-> user.email, role |-> user.role]

\* The handler returns: the slot is free again.
Answer(s, r, resp) ==
    /\ req' = [req EXCEPT ![s] = Idle]
    /\ out' = [r EXCEPT !.pc = "done", !.resp = resp]

\* The handler goes on to its next await.
Await(s, r) ==
    /\ req' = [req EXCEPT ![s] = r]
    /\ out' = out

Presentable == issued \cup {ForgedToken, OrphanToken}

(* ----------------------------- POST /login ----------------------------- *)

\* Mutant: the active flag is never looked at.
LoginCheckNoActive(user, password) ==
    IF user = <<>> \/ user[1].password = <<>> THEN "noUser"
    ELSE IF ~verifyPassword(password, user[1].password[1]) THEN "badPassword"
    ELSE "ok"

\* Mutant: the active flag is looked at before the password.
LoginCheckActiveFirst(user, password) ==
    IF user = <<>> \/ user[1].password = <<>> THEN "noUser"
    ELSE IF ~user[1].active THEN "disabled"
    ELSE IF ~verifyPassword(password, user[1].password[1]) THEN "badPassword"
    ELSE "ok"

\* The checks of /login in the order of the code: the user row and its
\* password, verifyPassword, the active flag.  "ok" lets the handler go on
\* to sign the tokens.
LoginCheck(user, password) ==
    IF user = <<>> \/ user[1].password = <<>> THEN "noUser"
    ELSE IF ~verifyPassword(password, user[1].password[1]) THEN "badPassword"
    ELSE IF ~user[1].active THEN "disabled"
    ELSE "ok"

\* Mutant: an unknown email is answered with its own error.
LoginRejectTelling(check) ==
    CASE check = "noUser" -> ErrorResponse(404, "USER_NOT_FOUND", "User not found")
      [] check = "badPassword" -> InvalidCredentials
      [] OTHER -> AccountDisabled

\* The reply to a request that failed a check.
LoginReject(check) ==
    CASE check = "noUser" -> InvalidCredentials
      [] check = "badPassword" -> InvalidCredentials
      [] OTHER -> AccountDisabled

\* POST /login: prisma.user.findUnique, the checks, the two tokens, the
\* insert with expiresAt = Date.now() + 7 days, and the reply; a throw of the
\* insert goes to the error handler.
Login(email, password) ==
    /\ LET user == FindUserByEmail(email)
           check == LoginCheck(user, password)
           r == [Idle EXCEPT !.op = "login", !.email = email,
                             !.password = password, !.user = user]
       IN  IF check # "ok"
           THEN /\ out' = [r EXCEPT !.pc = "done", !.resp = LoginReject(check)]
                /\ UNCHANGED <<refreshTokens, serials, issued>>
           ELSE LET access == signAccessToken(Claims(user[1]), now)
                    raw == signRefreshToken(Claims(user[1]), now, serials + 1)
                IN  /\ serials < MaxTokens
                    /\ serials' = serials + 1
                    /\ IF TokenConflict(Sha256(raw))
                       THEN /\ out' = [r EXCEPT !.pc = "done",
                                          !.resp = InternalError]
                            /\ UNCHANGED <<refreshTokens, issued>>
                       ELSE /\ refreshTokens' =
                                  CreateRefreshToken(Sha256(raw), user[1].id,
                                                     now + SevenDays)
                            /\ out' = [r EXCEPT !.pc = "done",
                                          !.resp = LoginOk(access, raw, user[1])]
                            /\ issued' = issued \cup {raw}
    /\ UNCHANGED <<jobs, webVars, users, now, req, loggedOut, rotated>>

(* ---------------------------- POST /refresh ---------------------------- *)

\* The request arrives: verifyRefreshToken, the hash, findUnique (with the
\* owning user) and the validity check.
RefreshFind(s, raw) ==
    /\ Free(s)
    /\ \E windowOver \in (IF now > raw.iat THEN BOOLEAN ELSE {FALSE}) :
         LET verified == verifyRefreshToken(raw, windowOver)
             stored == FindRefreshToken(Sha256(raw))
             r == [Idle EXCEPT !.op = "refresh",
                      !.token = <<raw>>, !.at = now, !.verified = verified,
                      !.stored = IF verified THEN stored ELSE <<>>,
                      !.afterLogout = raw \in loggedOut,
                      !.afterRotation = \E p \in rotated : p[1] = raw]
         IN  IF ~verified
             THEN /\ Answer(s, r, InvalidToken)
                  /\ UNCHANGED serials
             ELSE IF Rejected(stored)
             THEN /\ Answer(s, r, InvalidOrExpiredToken)
                  /\ UNCHANGED serials
             ELSE /\ serials < MaxTokens
                  /\ serials' = serials + 1
                  /\ Await(s, [r EXCEPT !.pc = "update", !.serial = serials + 1,
                                  !.user = <<users[stored[1].userId]>>])
    /\ UNCHANGED <<jobs, webVars, users, refreshTokens, now, issued, loggedOut, rotated>>

\* prisma.refreshToken.update resolves: the presented row is revoked; the new
\* pair is signed and the insert is sent.
RefreshUpdate(s) ==
    /\ req[s].op = "refresh"
    /\ req[s].pc = "update"
    /\ refreshTokens' = RevokeById(req[s].stored[1].id)
    /\ LET user == req[s].user[1]
       IN  Await(s, [req[s] EXCEPT !.pc = "create",
                    !.accessToken = <<signAccessToken(Claims(user), now)>>,
                    !.refreshToken =
                        <<signRefreshToken(Claims(user), now, req[s].serial)>>,
                    !.expiresAt = now + SevenDays,
                    !.wasRevoked =
                        refreshTokens[req[s].stored[1].id].revokedAt # NoTime])
    /\ UNCHANGED <<jobs, webVars, users, now, serials, issued, loggedOut, rotated>>

\* prisma.refreshToken.create resolves and the handler returns; a throw is
\* caught and answered with INVALID_TOKEN.
RefreshCreate(s) ==
    /\ req[s].op = "refresh"
    /\ req[s].pc = "create"
    /\ LET raw == req[s].refreshToken[1]
       IN  IF TokenConflict(Sha256(raw))
           THEN /\ Answer(s, req[s], InvalidToken)
                /\ UNCHANGED <<refreshTokens, issued, rotated>>
           ELSE /\ refreshTokens' =
                        CreateRefreshToken(Sha256(raw), req[s].user[1].id,
                                           req[s].expiresAt)
                /\ Answer(s, req[s], RefreshOk(req[s].accessToken[1], raw))
                /\ issued' = issued \cup {raw}
                /\ rotated' = rotated \cup {<<req[s].token[1], raw>>}
    /\ UNCHANGED <<jobs, webVars, users, now, serials, loggedOut>>

(* ----------------------------- POST /logout ---------------------------- *)

\* Mutant: a token that matches no row is reported.
LogoutReplyNotFound(matched) ==
    IF matched = 0 THEN InvalidToken ELSE LogoutOk

\* What /logout answers, given the number of rows updateMany matched.
LogoutReply(matched) == LogoutOk

Logout(raw) ==
    /\ LET tokenHash == Sha256(raw)
           matched == Cardinality({i \in DOMAIN refreshTokens :
                                      refreshTokens[i].token = tokenHash})
       IN  /\ refreshTokens' = RevokeByHash(tokenHash)
           /\ out' = [Idle EXCEPT !.op = "logout", !.pc = "done",
                         !.token = <<raw>>, !.afterLogout = raw \in loggedOut,
                         !.resp = LogoutReply(matched)]
    /\ loggedOut' = loggedOut \cup {raw}
    /\ UNCHANGED <<jobs, webVars, users, now, req, serials, issued, rotated>>

(* ------------------------------ environment ---------------------------- *)

\* Time passes.
Tick ==
    /\ \E t \in TimePoints : t > now /\ now' = t
    /\ UNCHANGED <<jobs, webVars, users, refreshTokens, req, out, serials, issued, loggedOut,
                   rotated>>

Next ==
    \/ \E e \in Emails, p \in Passwords : Login(e, p)
    \/ \E s \in Slots, raw \in Presentable : RefreshFind(s, raw)
    \/ \E s \in Slots : RefreshUpdate(s)
    \/ \E s \in Slots : RefreshCreate(s)
    \/ \E raw \in issued \cup {OrphanToken} : Logout(raw)
    \/ Tick

Spec == Init /\ [][Next]_vars

\* The same program started with one session open: the refresh token of a
\* Login of u1 at time 0 and its row.
SessionToken == signRefreshToken(Claims(SeedUsers["u1"]), 0, 0)

InitSession ==
    /\ users = SeedUsers
    /\ refreshTokens =
            <<[token |-> Sha256(SessionToken), userId |-> "u1",
               expiresAt |-> SevenDays, revokedAt |-> NoTime, createdAt |-> 0]>>
    /\ now = 0
    /\ req = [s \in Slots |-> Idle]
    /\ out = Idle
    /\ serials = 0
    /\ issued = {SessionToken}
    /\ loggedOut = {}
    /\ rotated = {}
    /\ jobs = <<>>
    /\ webUser = <<>>
    /\ compactMode = FALSE
    /\ location = "/login"

SpecSession == InitSession /\ [][Next]_vars

\* The same program started with one session of another user open: u2 logged
\* in at time 0, before the account was deactivated.
OtherToken == signRefreshToken(Claims(SeedUsers["u2"]), 0, 0)

InitOther ==
    /\ users = SeedUsers
    /\ refreshTokens =
            <<[token |-> Sha256(OtherToken), userId |-> "u2",
               expiresAt |-> SevenDays, revokedAt |-> NoTime, createdAt |-> 0]>>
    /\ now = 0
    /\ req = [s \in Slots |-> Idle]
    /\ out = Idle
    /\ serials = 0
    /\ issued = {OtherToken}
    /\ loggedOut = {}
    /\ rotated = {}
    /\ jobs = <<>>
    /\ webUser = <<>>
    /\ compactMode = FALSE
    /\ location = "/login"

SpecOther == InitOther /\ [][Next]_vars

\* The same program started with one session open whose refresh token is the
\* very token the issuer signs next for u1 at time 0: the insert of that
\* token runs into the unique index.
CollidingToken == signRefreshToken(Claims(SeedUsers["u1"]), 0, 1)

InitCollide ==
    /\ users = SeedUsers
    /\ refreshTokens =
            <<[token |-> Sha256(CollidingToken), userId |-> "u1",
               expiresAt |-> SevenDays, revokedAt |-> NoTime, createdAt |-> 0]>>
    /\ now = 0
    /\ req = [s \in Slots |-> Idle]
    /\ out = Idle
    /\ serials = 0
    /\ issued = {CollidingToken}
    /\ loggedOut = {}
    /\ rotated = {}
    /\ jobs = <<>>
    /\ webUser = <<>>
    /\ compactMode = FALSE
    /\ location = "/login"

SpecCollide == InitCollide /\ [][Next]_vars

(* ------------------------- admin/users.routes.ts ----------------------- *)

\* Rows of the users table that are new or differ from the seed over a run.
MaxChanged == 1

\* The ids prisma gives to new users, in the order they are given.
NewUserIds == <<"u5", "u6", "u7", "u8">>

\* The users table the admin routes start from: the seeded SUPER_ADMIN, an
\* ADMIN, and the three users of the session routes.
AdminUsers ==
    [u \in {"u0", "u1", "u2", "u3", "u4"} |->
        CASE u = "u0" -> [id |-> "u0", email |-> "root@x.com", name |-> "Root",
                          password |-> <<hashPassword("rootroot1")>>,
                          role |-> "SUPER_ADMIN", active |-> TRUE]
          [] u = "u4" -> [id |-> "u4", email |-> "adm@x.com", name |-> "Dee",
                          password |-> <<hashPassword("adminadmin")>>,
                          role |-> "ADMIN", active |-> TRUE]
          [] OTHER    -> SeedUsers[u]]

\* request.user: the claims of the caller's access token.
Callers == {Claims(AdminUsers[u]) : u \in {"u0", "u4", "u2", "u1"}}

\* A request body: every field is <<>> (absent) or <<value>>.
NoBody ==
    [name |-> <<>>, email |-> <<>>, password |-> <<>>, role |-> <<>>,
     active |-> <<>>]

\* POST bodies: a new user with each role a caller may ask for, and a user
\* with an email that is in use.
CreateBodies ==
    {[NoBody EXCEPT !.name = <<"New">>, !.email = <<"new@x.com">>,
                    !.password = <<"password1">>, !.role = <<r>>] :
        r \in {"SUPER_ADMIN", "ADMIN", "STAFF"}}
    \cup {[NoBody EXCEPT !.name = <<"New">>, !.email = <<"a@x.com">>,
                         !.password = <<"password1">>, !.role = <<"STAFF">>]}

\* PATCH bodies: one field each.
PatchBodies ==
    {[NoBody EXCEPT !.email = <<e>>] : e \in {"a@x.com", "new@x.com"}}
    \cup {[NoBody EXCEPT !.role = <<r>>] : r \in {"SUPER_ADMIN", "ADMIN"}}
    \cup {[NoBody EXCEPT !.active = <<FALSE>>]}

\* The :id of a request; no user has the id "u9".
TargetIds == {"u1", "u4", "u9"}

\* z.enum(["ADMIN", "MANAGER", "STAFF"])
AssignableRoles == {"ADMIN", "MANAGER", "STAFF"}

\* CreateUserSchema.parse(request.body) returns (TRUE) or throws (FALSE).
CreateUserSchema(body) ==
    /\ body.name # <<>>
    /\ body.email # <<>>
    /\ body.password # <<>>
    /\ body.role # <<>>
    /\ body.role[1] \in AssignableRoles

\* UpdateUserSchema.parse(request.body) returns (TRUE) or throws (FALSE).
UpdateUserSchema(body) ==
    body.role = <<>> \/ body.role[1] \in AssignableRoles

\* ["SUPER_ADMIN", "ADMIN"].includes(user.role)
\* Mutant: managers are let in.
MayAdministerManager(caller) == caller.role \in {"SUPER_ADMIN", "ADMIN", "MANAGER"}

MayAdminister(caller) == caller.role \in {"SUPER_ADMIN", "ADMIN"}

\* Mutant: any administrator may hand out ADMIN.
AdminRoleRefusedNever(caller, body) == FALSE

\* body.role === "ADMIN" && currentUser.role !== "SUPER_ADMIN"
AdminRoleRefused(caller, body) ==
    body.role = <<"ADMIN">> /\ caller.role # "SUPER_ADMIN"

\* select: { id, email, name, role, active }
Selected(row) ==
    [id |-> row.id, email |-> row.email, name |-> row.name, role |-> row.role,
     active |-> row.active]

AdminError(status, error) == ErrorResponse(status, "", error)

Forbidden == AdminError(403, "Forbidden")

\* What the error handler answers when a body does not parse.
ValidationError == AdminError(400, "Validation error")

AdminOk(status, user) ==
    [NoResponse EXCEPT !.status = status, !.user = user]

\* The unique index on users.email, as seen by a write to the row `id`.
EmailTaken(email, id) ==
    \E u \in DOMAIN users \ {id} : users[u].email = email

\* data: { ...body, password: await hashPassword(body.password) }
UpdateData(row, body) ==
    [row EXCEPT
        !.name = IF body.name = <<>> THEN @ ELSE body.name[1],
        !.email = IF body.email = <<>> THEN @ ELSE body.email[1],
        !.password = IF body.password = <<>> THEN @
                     ELSE <<hashPassword(body.password[1])>>,
        !.role = IF body.role = <<>> THEN @ ELSE body.role[1],
        !.active = IF body.active = <<>> THEN @ ELSE body.active[1]]

\* Rows of the table that are new or differ from the seed.
Changed(table) ==
    Cardinality({u \in DOMAIN table :
                    u \notin DOMAIN AdminUsers \/ table[u] # AdminUsers[u]})

\* A request as far as its handler has read it: request.user and the :id
\* first, the body once the caller's role has passed.
AdminRequest(op, caller, id, body) ==
    [op |-> op, pc |-> "idle", caller |-> caller, id |-> id,
     body |-> IF MayAdminister(caller) THEN body ELSE NoBody,
     resp |-> NoResponse]

AdminAnswer(r, resp) == out' = [r EXCEPT !.pc = "done", !.resp = resp]

\* GET /: the role check and findMany.
AdminList(caller) ==
    /\ LET r == AdminRequest("list", caller, "", NoBody)
       IN  IF ~MayAdminister(caller)
           THEN AdminAnswer(r, Forbidden)
           ELSE AdminAnswer(r, AdminOk(200,
                    <<{Selected(users[u]) : u \in DOMAIN users}>>))
    /\ UNCHANGED <<jobs, webVars, users, refreshTokens, now, req, serials, issued, loggedOut,
                   rotated>>

\* POST /: the role check, the schema, the ADMIN guard and findUnique by
\* email; a free email lets the handler go on to the insert.
AdminCreateFind(s, caller, body) ==
    /\ Free(s)
    /\ LET r == AdminRequest("create", caller, "", body)
       IN  IF ~MayAdminister(caller) THEN Answer(s, r, Forbidden)
           ELSE IF ~CreateUserSchema(body) THEN Answer(s, r, ValidationError)
           ELSE IF AdminRoleRefused(caller, body)
           THEN Answer(s, r,
                    AdminError(403, "Only SUPER_ADMIN can create ADMIN users"))
           ELSE IF FindUserByEmail(body.email[1]) # <<>>
           THEN Answer(s, r, AdminError(409, "Email already exists"))
           ELSE Await(s, [r EXCEPT !.pc = "insert"])
    /\ UNCHANGED <<jobs, webVars, users, refreshTokens, now, serials, issued, loggedOut,
                   rotated>>

\* prisma.user.create resolves, or throws on the unique index.
AdminCreateInsert(s) ==
    /\ req[s].op = "create"
    /\ req[s].pc = "insert"
    /\ LET body == req[s].body
           created == Cardinality(DOMAIN users \ DOMAIN AdminUsers)
           id == NewUserIds[created + 1]
           row == [id |-> id, email |-> body.email[1], name |-> body.name[1],
                   password |-> <<hashPassword(body.password[1])>>,
                   role |-> body.role[1], active |-> TRUE]
       IN  IF EmailTaken(body.email[1], id)
           THEN /\ Answer(s, req[s], InternalError)
                /\ UNCHANGED users
           ELSE /\ Changed(users) < MaxChanged
                /\ users' = [u \in DOMAIN users \cup {id} |->
                                IF u = id THEN row ELSE users[u]]
                /\ Answer(s, req[s], AdminOk(201, <<Selected(row)>>))
    /\ UNCHANGED <<jobs, webVars, refreshTokens, now, serials, issued, loggedOut, rotated>>

\* PATCH /:id: the role check, the schema, the ADMIN guard and the update,
\* which throws when no row has the id or the email is another row's.
AdminUpdate(caller, id, body) ==
    /\ LET r == AdminRequest("update", caller, id, body)
       IN  IF ~MayAdminister(caller)
           THEN AdminAnswer(r, Forbidden) /\ UNCHANGED users
           ELSE IF ~UpdateUserSchema(body)
           THEN AdminAnswer(r, ValidationError) /\ UNCHANGED users
           ELSE IF AdminRoleRefused(caller, body)
           THEN /\ AdminAnswer(r,
                    AdminError(403, "Only SUPER_ADMIN can assign ADMIN role"))
                /\ UNCHANGED users
           ELSE IF \/ id \notin DOMAIN users
                   \/ body.email # <<>> /\ EmailTaken(body.email[1], id)
           THEN AdminAnswer(r, InternalError) /\ UNCHANGED users
           ELSE LET table == [users EXCEPT ![id] = UpdateData(@, body)]
                IN  /\ Changed(table) <= MaxChanged
                    /\ users' = table
                    /\ AdminAnswer(r, AdminOk(200, <<Selected(table[id])>>))
    /\ UNCHANGED <<jobs, webVars, refreshTokens, now, req, serials, issued, loggedOut, rotated>>

\* DELETE /:id: the role check, the self check and the update of active.
AdminDelete(caller, id) ==
    /\ LET r == AdminRequest("delete", caller, id, NoBody)
       IN  IF ~MayAdminister(caller)
           THEN AdminAnswer(r, Forbidden) /\ UNCHANGED users
           ELSE IF id = caller.id
           THEN /\ AdminAnswer(r, AdminError(400, "Cannot deactivate yourself"))
                /\ UNCHANGED users
           ELSE IF id \notin DOMAIN users
           THEN AdminAnswer(r, InternalError) /\ UNCHANGED users
           ELSE LET table == [users EXCEPT ![id].active = FALSE]
                IN  /\ Changed(table) <= MaxChanged
                    /\ users' = table
                    /\ AdminAnswer(r, [NoResponse EXCEPT !.status = 200,
                                                         !.code = "success"])
    /\ UNCHANGED <<jobs, webVars, refreshTokens, now, req, serials, issued, loggedOut, rotated>>

InitAdmin ==
    /\ users = AdminUsers
    /\ refreshTokens = <<>>
    /\ now = 0
    /\ req = [s \in Slots |-> Idle]
    /\ out = Idle
    /\ serials = 0
    /\ issued = {}
    /\ loggedOut = {}
    /\ rotated = {}
    /\ jobs = <<>>
    /\ webUser = <<>>
    /\ compactMode = FALSE
    /\ location = "/login"

NextAdmin ==
    \/ \E caller \in Callers : AdminList(caller)
    \/ \E s \in Slots, caller \in Callers, body \in CreateBodies :
            AdminCreateFind(s, caller, body)
    \/ \E s \in Slots : AdminCreateInsert(s)
    \/ \E caller \in Callers, id \in TargetIds, body \in PatchBodies :
            AdminUpdate(caller, id, body)
    \/ \E caller \in Callers, id \in TargetIds : AdminDelete(caller, id)

SpecAdmin == InitAdmin /\ [][NextAdmin]_vars

\* The admin routes beside /refresh: u1 has a session open, administrators
\* switch accounts off and on.
ActiveBodies == {[NoBody EXCEPT !.active = <<a>>] : a \in BOOLEAN}

Administrators == {caller \in Callers : MayAdminister(caller)}

\* The session's owner and an administrator.
Accounts == {"u1", "u4"}

InitDeactivate ==
    /\ users = AdminUsers
    /\ refreshTokens =
            <<[token |-> Sha256(SessionToken), userId |-> "u1",
               expiresAt |-> SevenDays, revokedAt |-> NoTime, createdAt |-> 0]>>
    /\ now = 0
    /\ req = [s \in Slots |-> Idle]
    /\ out = Idle
    /\ serials = 0
    /\ issued = {SessionToken}
    /\ loggedOut = {}
    /\ rotated = {}
    /\ jobs = <<>>
    /\ webUser = <<>>
    /\ compactMode = FALSE
    /\ location = "/login"

NextDeactivate ==
    \/ \E caller \in Administrators, id \in Accounts : AdminDelete(caller, id)
    \/ \E caller \in Administrators, id \in Accounts, body \in ActiveBodies :
            AdminUpdate(caller, id, body)
    \/ \E s \in Slots, raw \in Presentable : RefreshFind(s, raw)
    \/ \E s \in Slots : RefreshUpdate(s)
    \/ \E s \in Slots : RefreshCreate(s)
    \/ Tick

SpecDeactivate == InitDeactivate /\ [][NextDeactivate]_vars

(* --------------------- product.routes.ts: POST /import ----------------- *)

MaxItems == 2
MaxJobs == 2

\* Items of an import: a product with its variants.  What validateImport
\* finds wrong with a product is carried by the product as its faults.
ImportItems ==
    {[product |-> [sku |-> <<"A-1">>, faults |-> <<>>],
      variants |-> <<"A-1-S">>],
     [product |-> [sku |-> <<"B-2">>, faults |-> <<"name is required">>],
      variants |-> <<"B-2-S">>],
     [product |-> [sku |-> <<>>, faults |-> <<"sku is required">>],
      variants |-> <<>>]}

RECURSIVE ListsOf(_, _)
ListsOf(items, n) ==
    IF n = 0 THEN {<<>>}
    ELSE LET shorter == ListsOf(items, n - 1)
         IN  shorter \cup {Append(l, i) : l \in shorter, i \in items}

\* request.body: products missing, or a list of items.
ImportBodies ==
    {[products |-> <<>>]}
    \cup {[products |-> <<l>>] : l \in ListsOf(ImportItems, MaxItems)}

\* productService.validateImport(product, variants)
ValidateImport(product, variants) ==
    [valid |-> product.faults = <<>>, errors |-> product.faults]

\* Mutant: only the first item is validated.
ValidationErrorsFirstOnly(products) ==
    LET validation == ValidateImport(products[1].product, products[1].variants)
    IN  IF validation.valid THEN <<>>
        ELSE <<[index |-> 1, sku |-> products[1].product.sku,
                errors |-> validation.errors]>>

\* The loop over the items: one entry for each item that is not valid, with
\* its position, its sku and the errors found.
ValidationErrors(products) ==
    LET Validation(i) ==
            ValidateImport(products[i].product, products[i].variants)
        entries == [i \in 1..Len(products) |->
                        [index |-> i, sku |-> products[i].product.sku,
                         errors |-> Validation(i).errors]]
        NotValid(entry) == ~Validation(entry.index).valid
    IN  SelectSeq(entries, NotValid)

ImportResponse(status, error, details, jobId, count) ==
    [status |-> status, error |-> error, details |-> details, jobId |-> jobId,
     count |-> count]

\* enqueueImportProducts({ products, idempotencyKey }): the queue with the
\* new job.
EnqueueImportProducts(products, idempotencyKey) ==
    Append(jobs, [id |-> Len(jobs) + 1, products |-> products,
                  idempotencyKey |-> idempotencyKey])

\* POST /products/import
ImportProducts(body) ==
    /\ LET r == [op |-> "import", pc |-> "done", body |-> body, at |-> now,
                 resp |-> ImportResponse(0, "", <<>>, 0, 0)]
       IN  IF body.products = <<>> \/ Len(body.products[1]) = 0
           THEN /\ out' = [r EXCEPT !.resp =
                        ImportResponse(400, "No products provided", <<>>, 0, 0)]
                /\ UNCHANGED jobs
           ELSE LET products == body.products[1]
                    validationErrors == ValidationErrors(products)
                IN  IF Len(validationErrors) > 0
                    THEN /\ out' = [r EXCEPT !.resp =
                                ImportResponse(400, "Validation failed",
                                               validationErrors, 0, 0)]
                         /\ UNCHANGED jobs
                    ELSE /\ Len(jobs) < MaxJobs
                         /\ jobs' = EnqueueImportProducts(products,
                                        <<"import", now, Len(products)>>)
                         /\ out' = [r EXCEPT !.resp =
                                ImportResponse(202, "", <<>>, Len(jobs) + 1,
                                               Len(products))]
    /\ UNCHANGED <<authVars, now, webVars>>

InitImport ==
    /\ users = SeedUsers
    /\ refreshTokens = <<>>
    /\ now = 0
    /\ req = [s \in Slots |-> Idle]
    /\ out = Idle
    /\ serials = 0
    /\ issued = {}
    /\ loggedOut = {}
    /\ rotated = {}
    /\ jobs = <<>>
    /\ webUser = <<>>
    /\ compactMode = FALSE
    /\ location = "/login"

NextImport ==
    \/ \E body \in ImportBodies : ImportProducts(body)
    \/ Tick

SpecImport == InitImport /\ [][NextImport]_vars

(* ------------------- web: AppLayout.tsx and router.tsx ----------------- *)

UserRole == {"SUPER_ADMIN", "ADMIN", "MANAGER", "STAFF"}

\* A NavItem: roles is <<>> when the item has no roles field.
NavItem(to, roles, fullOnly) == [to |-> to, roles |-> roles, fullOnly |-> fullOnly]

Management == <<{"SUPER_ADMIN", "ADMIN", "MANAGER"}>>
Admin == <<{"SUPER_ADMIN", "ADMIN"}>>

allNavItems ==
    <<NavItem("/dashboard", <<>>, FALSE),
      NavItem("/fulfillment", <<>>, FALSE),
      NavItem("/tasks", <<>>, FALSE),
      NavItem("/pick", <<>>, FALSE),
      NavItem("/pack", <<>>, FALSE),
      NavItem("/receiving", <<>>, FALSE),
      NavItem("/cycle-count", <<>>, FALSE),
      NavItem("/scan", <<>>, FALSE),
      NavItem("/create-staff", Management, FALSE),
      NavItem("/orders", Management, FALSE),
      NavItem("/products", Management, FALSE),
      NavItem("/inventory", Management, FALSE),
      NavItem("/locations", Management, FALSE),
      NavItem("/shipping", Management, FALSE),
      NavItem("/reports", Management, TRUE),
      NavItem("/users", Admin, TRUE),
      NavItem("/settings", Admin, TRUE)>>

compactNavItems == SubSeq(allNavItems, 1, 8)

getNavItemsForRole(role, compact) ==
    LET Kept(item) ==
            /\ ~(item.roles # <<>> /\ role \notin item.roles[1])
            /\ ~(compact /\ item.fullOnly)
    IN  SelectSeq(allNavItems, Kept)

\* The paths of the routes under AppLayout that have no parameter.
AppRoutes ==
    {"/dashboard", "/tasks", "/pick", "/pack", "/receive", "/orders",
     "/fulfillment", "/products", "/products/import", "/locations",
     "/inventory", "/receiving", "/receiving/purchase-orders", "/cycle-count",
     "/cycle-count/start", "/invoices", "/scan", "/shipping", "/create-staff",
     "/reports", "/users", "/settings"}

\* What a route element comes to: its page, or a Navigate to another path.
Page(path) == [navigate |-> <<>>, page |-> path]
Navigate(to) == [navigate |-> <<to>>, page |-> ""]

RequireRole(user, role, children) ==
    IF user = <<>> \/ user[1].role # role
    THEN Navigate("/dashboard")
    ELSE children

\* The element the router renders at a path for the signed-in user.
Element(path, user) ==
    IF path = "/" THEN Navigate("/dashboard")
    ELSE IF path = "/login" THEN Page("/login")
    ELSE IF user = <<>> THEN Navigate("/login")
    ELSE IF path = "/create-staff"
    THEN RequireRole(user, "SUPER_ADMIN", Page("/create-staff"))
    ELSE Page(path)

\* The path the client rests at after the redirects.
RECURSIVE Settle(_, _)
Settle(path, user) ==
    LET element == Element(path, user)
    IN  IF element.navigate = <<>> THEN path
        ELSE Settle(element.navigate[1], user)

\* The links the layout shows: the bottom nav in compact mode, the sidebar
\* otherwise.
Shown ==
    IF compactMode THEN compactNavItems
    ELSE getNavItemsForRole(webUser[1].role, compactMode)

\* A NavLink of the layout is followed.
Follow(i) ==
    /\ webUser # <<>>
    /\ i \in 1..Len(Shown)
    /\ location' = Settle(Shown[i].to, webUser)
    /\ UNCHANGED <<authVars, now, out, jobs, webUser, compactMode>>

\* A path is entered in the address bar.
Visit(path) ==
    /\ location' = Settle(path, webUser)
    /\ UNCHANGED <<authVars, now, out, jobs, webUser, compactMode>>

\* The Compact Mode and Full Mode buttons.
SetCompactMode(value) ==
    /\ webUser # <<>>
    /\ value # compactMode
    /\ compactMode' = value
    /\ UNCHANGED <<authVars, now, out, jobs, webUser, location>>

\* Sign out: without a user AppLayout navigates to /login.
SignOut ==
    /\ webUser # <<>>
    /\ webUser' = <<>>
    /\ location' = Settle(location, <<>>)
    /\ UNCHANGED <<authVars, now, out, jobs, compactMode>>

InitWeb ==
    /\ users = SeedUsers
    /\ refreshTokens = <<>>
    /\ now = 0
    /\ req = [s \in Slots |-> Idle]
    /\ out = Idle
    /\ serials = 0
    /\ issued = {}
    /\ loggedOut = {}
    /\ rotated = {}
    /\ jobs = <<>>
    /\ webUser \in {<<[role |-> role]>> : role \in UserRole}
    /\ compactMode \in BOOLEAN
    /\ location = Settle("/", webUser)

NextWeb ==
    \/ \E i \in 1..Len(allNavItems) : Follow(i)
    \/ \E path \in AppRoutes \cup {"/"} : Visit(path)
    \/ \E value \in BOOLEAN : SetCompactMode(value)
    \/ SignOut

SpecWeb == InitWeb /\ [][NextWeb]_vars

(* ----------------------------- properties ------------------------------ *)

Answered(op) == out.pc = "done" /\ out.op = op

RowOf(raw) == FindRefreshToken(Sha256(raw))

\* What the request read, set against what it sent.
NoSuchUser(r) == r.user = <<>>
NoPassword(r) == r.user # <<>> /\ r.user[1].password = <<>>
PasswordMatches(r) ==
    /\ r.user # <<>>
    /\ r.user[1].password # <<>>
    /\ r.user[1].password[1] = hashPassword(r.password)
WrongPassword(r) ==
    r.user # <<>> /\ r.user[1].password # <<>> /\ ~PasswordMatches(r)

NoTokens(resp) ==
    resp.accessToken = <<>> /\ resp.refreshToken = <<>> /\ resp.user = <<>>

\* C1: two concurrent Refresh calls presenting the same usable token: exactly
\* one succeeds and the other is answered INVALID_TOKEN, so no token is ever
\* exchanged for two different successors.
C1_OneRefreshPerToken ==
    \A p \in rotated, q \in rotated : p[1] = q[1] => p[2] = q[2]

C3_SucceedsIffExpiresLater ==
    (Answered("refresh") /\ out.verified) =>
        /\ out.resp.status = 200 <=>
                /\ out.stored # <<>>
                /\ out.stored[1].revokedAt = NoTime
                /\ out.stored[1].expiresAt > out.at
        /\ out.resp.status # 200 =>
                out.resp.status = 401 /\ out.resp.code = "INVALID_TOKEN"

\* C4: the writes of a Refresh that succeeds: its lookup writes nothing, its
\* update sets revokedAt on the presented row and leaves every other row and
\* every other column alone, and its insert appends exactly one row, with
\* revokedAt null and the digest of the returned token, next to the presented
\* row, which is revoked.
C4_RefreshWrites ==
    [][\A s \in Slots :
        /\ (req[s].pc = "idle" /\ req'[s].pc = "update") =>
                refreshTokens' = refreshTokens
        /\ (req[s].op = "refresh" /\ req[s].pc = "update"
                /\ req'[s].pc = "create") =>
                /\ Len(refreshTokens') = Len(refreshTokens)
                /\ \E i \in DOMAIN refreshTokens :
                        refreshTokens[i].token = Sha256(req[s].token[1])
                /\ \A i \in DOMAIN refreshTokens :
                        IF refreshTokens[i].token = Sha256(req[s].token[1])
                        THEN /\ refreshTokens'[i].revokedAt # NoTime
                             /\ [refreshTokens'[i] EXCEPT !.revokedAt = NoTime]
                                = [refreshTokens[i] EXCEPT !.revokedAt = NoTime]
                        ELSE refreshTokens'[i] = refreshTokens[i]
        /\ (req[s].op = "refresh" /\ req[s].pc = "create"
                /\ req'[s].pc = "idle" /\ out'.resp.status = 200) =>
                /\ Len(refreshTokens') = Len(refreshTokens) + 1
                /\ SubSeq(refreshTokens', 1, Len(refreshTokens)) = refreshTokens
                /\ refreshTokens'[Len(refreshTokens')].revokedAt = NoTime
                /\ refreshTokens'[Len(refreshTokens')].token
                        = Sha256(out'.resp.refreshToken[1])
                /\ \E i \in DOMAIN refreshTokens :
                        /\ refreshTokens[i].token = Sha256(req[s].token[1])
                        /\ refreshTokens'[i].revokedAt # NoTime
      ]_vars

\* C4 witness: a Refresh has succeeded; the presented row is revoked and the
\* row of the returned token is there.
C4_Witness ==
    /\ Answered("refresh")
    /\ out.resp.status = 200
    /\ RowOf(out.token[1]) # <<>>
    /\ RowOf(out.token[1])[1].revokedAt # NoTime
    /\ RowOf(out.resp.refreshToken[1]) # <<>>

\* C5: a Login with the email of an active user and the password its stored
\* hash was made from succeeds, returns an access and a refresh token, and
\* appends exactly one row: the digest of the returned refresh token, the
\* user's id, revokedAt null.
C5_LoginIssuesAndRecords ==
    [][(/\ out' # out
        /\ out'.op = "login"
        /\ \E u \in DOMAIN users :
                /\ users[u].email = out'.email
                /\ users[u].active
                /\ users[u].password = <<hashPassword(out'.password)>>) =>
            /\ out'.resp.status = 200
            /\ out'.resp.accessToken # <<>>
            /\ out'.resp.refreshToken # <<>>
            /\ Len(refreshTokens') = Len(refreshTokens) + 1
            /\ SubSeq(refreshTokens', 1, Len(refreshTokens)) = refreshTokens
            /\ LET row == refreshTokens'[Len(refreshTokens')]
               IN  /\ row.token = <<"sha256", out'.resp.refreshToken[1]>>
                   /\ row.revokedAt = NoTime
                   /\ \E u \in DOMAIN users :
                        users[u].email = out'.email /\ row.userId = users[u].id
      ]_vars

\* C5 witness: the active user has logged in and holds a token pair.
C5_Witness ==
    /\ Answered("login")
    /\ out.email = "a@x.com"
    /\ out.password = "secret123"
    /\ out.resp.status = 200
    /\ out.resp.refreshToken # <<>>

\* C6: a Login with an unknown email, one for a user with no password and
\* one with a wrong password are answered with one and the same response:
\* 401, INVALID_CREDENTIALS, "Invalid email or password", nothing else.
C6_SameRejection ==
    (Answered("login") /\ (NoSuchUser(out) \/ NoPassword(out) \/ WrongPassword(out)))
        => out.resp = [status |-> 401, code |-> "INVALID_CREDENTIALS",
                       message |-> "Invalid email or password",
                       accessToken |-> <<>>, refreshToken |-> <<>>,
                       user |-> <<>>]

\* C6 witness: a Login for an unknown email has been answered.
C6_Witness ==
    Answered("login") /\ NoSuchUser(out) /\ out.resp.status = 401

\* C7: a Login for a user whose active flag is false, with the right
\* password, is answered 403 ACCOUNT_DISABLED, carries no token and writes
\* no row.
C7_DisabledAccount ==
    [][(/\ out' # out
        /\ out'.op = "login"
        /\ PasswordMatches(out')
        /\ ~out'.user[1].active) =>
            /\ out'.resp.status = 403
            /\ out'.resp.code = "ACCOUNT_DISABLED"
            /\ NoTokens(out'.resp)
            /\ refreshTokens' = refreshTokens
            /\ issued' = issued
      ]_vars

\* C7 witness: the deactivated user has presented the right password.
C7_Witness ==
    /\ Answered("login")
    /\ PasswordMatches(out)
    /\ ~out.user[1].active
    /\ out.resp.status = 403

\* C8: ACCOUNT_DISABLED is answered only to a request whose password
\* matched; a deactivated user with a wrong password is answered
\* INVALID_CREDENTIALS.
C8_DisabledOnlyAfterPassword ==
    Answered("login") =>
        /\ out.resp.code = "ACCOUNT_DISABLED" => PasswordMatches(out)
        /\ (WrongPassword(out) /\ ~out.user[1].active) =>
                out.resp.status = 401 /\ out.resp.code = "INVALID_CREDENTIALS"

\* C8 witness: the deactivated user has presented a wrong password.
C8_Witness ==
    /\ Answered("login")
    /\ WrongPassword(out)
    /\ ~out.user[1].active
    /\ out.resp.code = "INVALID_CREDENTIALS"

\* C9: every Logout reports success, the second one with the same token
\* too, and a Refresh that arrives after a Logout of its token has completed
\* never passes the checks and is answered INVALID_TOKEN.
C9_LogoutIdempotent ==
    /\ Answered("logout") => out.resp.status = 200 /\ out.resp.code = "success"
    /\ (Answered("refresh") /\ out.afterLogout) =>
            /\ out.resp.status = 401
            /\ out.resp.code = "INVALID_TOKEN"
            /\ NoTokens(out.resp)
    /\ \A s \in Slots : req[s].op = "refresh" => ~req[s].afterLogout

\* C9 witness: a second Logout with the token of an existing row has been
\* answered with success.
C9_Witness ==
    /\ Answered("logout")
    /\ out.afterLogout
    /\ out.resp.status = 200
    /\ RowOf(out.token[1]) # <<>>

\* C10: a Logout reports success whatever the token, and when no row holds
\* the token's digest it leaves the table as it was.
C10_LogoutAlwaysSucceeds ==
    [][(out'.op = "logout" /\ (out' # out \/ loggedOut' # loggedOut)) =>
            /\ out'.resp.status = 200
            /\ out'.resp.code = "success"
            /\ (\A i \in DOMAIN refreshTokens :
                    refreshTokens[i].token # <<"sha256", out'.token[1]>>)
                => refreshTokens' = refreshTokens
      ]_vars

\* C10 witness: a Logout with a token that has no row has been answered with
\* success.
C10_Witness ==
    /\ Answered("logout")
    /\ out.resp.status = 200
    /\ RowOf(out.token[1]) = <<>>

\* C11: a Refresh that finds a row whose expiresAt is not later than the time
\* of the lookup is answered INVALID_TOKEN, whatever the row's revokedAt, and
\* never goes on to revoke the row or to insert a successor.
C11_ExpiredIsRefused ==
    /\ (/\ Answered("refresh")
        /\ out.verified
        /\ out.stored # <<>>
        /\ out.stored[1].expiresAt <= out.at) =>
            /\ out.resp.status = 401
            /\ out.resp.code = "INVALID_TOKEN"
            /\ NoTokens(out.resp)
    /\ \A s \in Slots :
            req[s].op = "refresh" => req[s].stored[1].expiresAt > req[s].at

\* C12: revocation is terminal: a row whose revokedAt is set never has it
\* null again, and no Refresh succeeds that presented a row whose revokedAt
\* had been set before the Refresh wrote to it.
C12_RevocationTerminal ==
    [][/\ \A i \in DOMAIN refreshTokens :
            refreshTokens[i].revokedAt # NoTime =>
                refreshTokens'[i].revokedAt # NoTime
       /\ (out'.op = "refresh" /\ out'.resp.status = 200) => ~out'.wasRevoked
      ]_vars

\* C13: the token presented to a Refresh and the token that Refresh issued
\* are never both accepted by the validity check: the presented row is
\* revoked by the time the request comes to insert the successor, and stays so.
C13_NeverBothUsable ==
    /\ \A s \in Slots :
            (req[s].op = "refresh" /\ req[s].pc = "create") =>
                /\ RowOf(req[s].token[1]) # <<>>
                /\ RowOf(req[s].token[1])[1].revokedAt # NoTime
    /\ \A p \in rotated :
            ~(~Rejected(RowOf(p[1])) /\ ~Rejected(RowOf(p[2])))

\* C13 witness: a Refresh has succeeded; the token it issued passes the
\* validity check and the token it was given does not.
C13_Witness ==
    \E p \in rotated :
        /\ Answered("refresh")
        /\ out.resp.refreshToken = <<p[2]>>
        /\ ~Rejected(RowOf(p[2]))
        /\ Rejected(RowOf(p[1]))

\* C14: every failing Refresh is answered with the same response: a failing
\* Refresh answered next after another failing Refresh gets the same status,
\* code and message, whatever made each of them fail.
C14_OneFailureResponse ==
    [][(/\ Answered("refresh")
        /\ out.resp.status # 200
        /\ out'.op = "refresh"
        /\ out'.pc = "done"
        /\ out'.resp.status # 200) => out'.resp = out.resp
      ]_vars

\* C15: a Refresh is all or nothing: one that is answered with an error has
\* written nothing to the table, neither in the step that answers it nor
\* before (it has not revoked the presented row).
C15_RefreshAllOrNothing ==
    [][(/\ out' # out
        /\ out'.op = "refresh"
        /\ out'.pc = "done"
        /\ out'.resp.status # 200) =>
            /\ refreshTokens' = refreshTokens
            /\ \A s \in Slots : ~(req[s].pc = "create" /\ req'[s].pc = "idle")
      ]_vars

\* C16: a conflict on the insert of a new row never reaches the caller: a
\* Login that passed its checks and a Refresh that passed its checks are
\* answered with a token pair whose refresh token has a row, the insert
\* having been retried with a fresh token when the hash was already there.
C16_ConflictNeverSurfaced ==
    /\ (/\ Answered("login")
        /\ PasswordMatches(out)
        /\ out.user[1].active) =>
            /\ out.resp.status = 200
            /\ out.resp.refreshToken # <<>>
            /\ RowOf(out.resp.refreshToken[1]) # <<>>
    /\ (/\ Answered("refresh")
        /\ out.verified
        /\ out.stored # <<>>
        /\ out.stored[1].revokedAt = NoTime
        /\ out.stored[1].expiresAt >= out.at) =>
            /\ out.resp.status = 200
            /\ out.resp.refreshToken # <<>>
            /\ RowOf(out.resp.refreshToken[1]) # <<>>

\* C17: no two rows of the table hold the same token hash.
C17_TokenHashUnique ==
    \A i \in DOMAIN refreshTokens, j \in DOMAIN refreshTokens :
        i # j => refreshTokens[i].token # refreshTokens[j].token

\* C17 witness: a Refresh signed a token whose hash was already in the
\* table; its insert was refused and the hash is in one row only.
C17_Witness ==
    /\ Answered("refresh")
    /\ out.resp.status # 200
    /\ out.refreshToken # <<>>
    /\ Cardinality({i \in DOMAIN refreshTokens :
            refreshTokens[i].token = Sha256(out.refreshToken[1])}) = 1

CarriesUser(token, user) ==
    token.id = user.id /\ token.email = user.email /\ token.role = user.role

\* C18: the row inserted by a successful Refresh has the userId of the
\* presented row, and the access token and the refresh token it returns carry
\* the id, email and role of that user.
C18_SameUser ==
    /\ \A p \in rotated :
            /\ RowOf(p[1]) # <<>>
            /\ RowOf(p[2]) # <<>>
            /\ RowOf(p[2])[1].userId = RowOf(p[1])[1].userId
            /\ CarriesUser(p[2], users[RowOf(p[1])[1].userId])
    /\ (Answered("refresh") /\ out.resp.status = 200) =>
            /\ RowOf(out.token[1]) # <<>>
            /\ CarriesUser(out.resp.accessToken[1],
                           users[RowOf(out.token[1])[1].userId])
            /\ CarriesUser(out.resp.refreshToken[1],
                           users[RowOf(out.token[1])[1].userId])

\* C18 witness: two users hold rows and the session of u2 has been refreshed.
C18_Witness ==
    /\ \E p \in rotated : RowOf(p[1]) # <<>> /\ RowOf(p[1])[1].userId = "u2"
    /\ \E i \in DOMAIN refreshTokens : refreshTokens[i].userId = "u1"

\* C19: no step of Login, Refresh or Logout deletes a row or changes the
\* token, userId, expiresAt or createdAt of a row: the table only grows and
\* revokedAt is the only column written on a row that is already there.
C19_RowsOnlyGrow ==
    [][/\ Len(refreshTokens') >= Len(refreshTokens)
       /\ \A i \in DOMAIN refreshTokens :
            [refreshTokens'[i] EXCEPT !.revokedAt = NoTime]
                = [refreshTokens[i] EXCEPT !.revokedAt = NoTime]
      ]_vars

\* C19 witness: a Logout has revoked one of two rows; both rows are there.
C19_Witness ==
    /\ Answered("logout")
    /\ Len(refreshTokens) >= 2
    /\ RowOf(out.token[1]) # <<>>
    /\ RowOf(out.token[1])[1].revokedAt # NoTime
    /\ \E i \in DOMAIN refreshTokens : refreshTokens[i].revokedAt = NoTime

\* C20: revoking a row that is already revoked changes nothing: once a row's
\* revokedAt is set, no Logout and no other revoke gives it another value.
C20_RevokeAgainIsNoOp ==
    [][\A i \in DOMAIN refreshTokens :
            refreshTokens[i].revokedAt # NoTime =>
                refreshTokens'[i].revokedAt = refreshTokens[i].revokedAt
      ]_vars

\* C21: every row holds as expiresAt the instant its token was signed plus
\* exactly 7 days, and a Refresh that arrives once 7 days have gone by since
\* then is refused and never gets to write.
C21_SevenDays ==
    /\ \A i \in DOMAIN refreshTokens :
            refreshTokens[i].expiresAt
                = refreshTokens[i].token[2].iat + 7 * 24 * 60 * 60 * 1000
    /\ (/\ Answered("refresh")
        /\ out.verified
        /\ out.stored # <<>>
        /\ out.at >= out.stored[1].token[2].iat + 7 * 24 * 60 * 60 * 1000) =>
            out.resp.status = 401 /\ out.resp.code = "INVALID_TOKEN"
    /\ \A s \in Slots :
            req[s].op = "refresh" =>
                req[s].at < req[s].stored[1].token[2].iat
                                + 7 * 24 * 60 * 60 * 1000

\* An admin request answered by this step.
AdminAnswered(op) == out' # out /\ out'.pc = "done" /\ out'.op = op

EmailInUse(email) == \E u \in DOMAIN users : users[u].email = email

\* C22: under any interleaving of admin creates and updates no two users
\* share an email; a create whose email is in use when the handler looks it
\* up never goes on to the insert and adds no user, and a create that has
\* passed the role check, the schema and the ADMIN guard is answered 409.
C22_EmailsUnique ==
    [][/\ \A u \in DOMAIN users', v \in DOMAIN users' :
            users'[u].email = users'[v].email => u = v
       /\ \A s \in Slots :
            (req[s].pc = "idle" /\ req'[s].pc = "insert") =>
                ~EmailInUse(req'[s].body.email[1])
       /\ (/\ AdminAnswered("create")
           /\ req' = req
           /\ out'.body.email # <<>>
           /\ EmailInUse(out'.body.email[1])) =>
                /\ users' = users
                /\ out'.resp.status \in {400, 403, 409}
                /\ (CreateUserSchema(out'.body)
                    /\ ~AdminRoleRefused(out'.caller, out'.body)) =>
                        /\ out'.resp.status = 409
                        /\ out'.resp.message = "Email already exists"
      ]_vars

\* C22 witness: a create for an email that was free at the start of the run
\* has been answered 409, after another request took the email.
C22_Witness ==
    /\ Answered("create")
    /\ out.resp.status = 409
    /\ out.body.email = <<"new@x.com">>

\* The token a Refresh exchanged for raw, if raw came from a Refresh.
ParentOf(raw) == {p[1] : p \in {q \in rotated : q[2] = raw}}

\* The token of the Login that raw descends from.
RECURSIVE LineageRoot(_)
LineageRoot(raw) ==
    IF ParentOf(raw) = {} THEN raw
    ELSE LineageRoot(CHOOSE p \in ParentOf(raw) : TRUE)

\* C23: among the token of a Login and all tokens derived from it by
\* successive Refresh calls, at most one passes the validity check in any
\* reachable state, whatever the interleaving of Refresh and Logout.
C23_OneLivePerLineage ==
    \A a \in issued, b \in issued :
        (/\ LineageRoot(a) = LineageRoot(b)
         /\ ~Rejected(RowOf(a))
         /\ ~Rejected(RowOf(b))) => a = b

\* C24: a Login answered INVALID_CREDENTIALS or ACCOUNT_DISABLED leaves the
\* refresh-token rows and the users table as they were.
C24_FailedLoginWritesNothing ==
    [][(/\ out' # out
        /\ out'.op = "login"
        /\ out'.resp.code \in {"INVALID_CREDENTIALS", "ACCOUNT_DISABLED"}) =>
            /\ refreshTokens' = refreshTokens
            /\ users' = users
      ]_vars

\* C24 witness: a Login has been refused while the store held a row.
C24_Witness ==
    /\ Answered("login")
    /\ out.resp.code \in {"INVALID_CREDENTIALS", "ACCOUNT_DISABLED"}
    /\ Len(refreshTokens) > 0

\* A deactivation answered by this step: DELETE /:id, or PATCH /:id with
\* active false.
Deactivated ==
    /\ out' # out
    /\ out'.pc = "done"
    /\ out'.resp.status = 200
    /\ \/ out'.op = "delete"
       \/ out'.op = "update" /\ out'.body.active = <<FALSE>>

\* C25: a deactivation sets the active flag of the addressed user's row and
\* changes nothing else: no other field, no other user, no refresh-token row.
\* A Refresh is refused at its validity check only for a token that is not
\* verified, has no row, or whose row is revoked or expired, never for the
\* owner's active flag, and a Refresh that has passed the check returns a
\* new pair.
C25_DeactivationLeavesTokens ==
    [][/\ Deactivated =>
            /\ refreshTokens' = refreshTokens
            /\ users' = [users EXCEPT ![out'.id].active = FALSE]
       /\ (out' # out /\ out'.op = "refresh" /\ req' = req) =>
            \/ ~out'.verified
            \/ out'.stored = <<>>
            \/ out'.stored[1].revokedAt # NoTime
            \/ out'.stored[1].expiresAt < now
       /\ (out' # out /\ out'.op = "refresh" /\ req' # req) =>
            /\ out'.resp.status = 200
            /\ out'.resp.refreshToken # <<>>
      ]_vars

\* C25 witness: the session's owner has been deactivated and a Refresh that
\* read the deactivated row has returned a new pair.
C25_Witness ==
    /\ Answered("refresh")
    /\ out.resp.status = 200
    /\ out.user # <<>>
    /\ ~out.user[1].active
    /\ ~users[out.user[1].id].active

\* The user u has the role after this step and had not before it.
Gains(u, role) ==
    /\ users'[u].role = role
    /\ u \in DOMAIN users => users[u].role # role

\* C26: a step in which a user gains ADMIN, by create or by update, answers
\* a request whose caller is SUPER_ADMIN; no step lets a user gain
\* SUPER_ADMIN.
C26_NoEscalation ==
    [][\A u \in DOMAIN users' :
            /\ Gains(u, "ADMIN") =>
                    /\ out'.op \in {"create", "update"}
                    /\ out'.caller.role = "SUPER_ADMIN"
            /\ ~Gains(u, "SUPER_ADMIN")
      ]_vars

\* C26 witness: an ADMIN caller has asked for a new ADMIN user and has been
\* refused, after a SUPER_ADMIN caller has made a user ADMIN.
C26_Witness ==
    /\ Answered("create")
    /\ out.caller.role = "ADMIN"
    /\ out.body.role = <<"ADMIN">>
    /\ out.resp.status = 403
    /\ \E u \in DOMAIN users :
            users[u].role = "ADMIN"
            /\ (u \in DOMAIN AdminUsers => AdminUsers[u].role # "ADMIN")

\* C27: no DELETE /:id and no PATCH /:id switches off the active flag of the
\* caller's own row.
C27_NoSelfDeactivation ==
    [][~(/\ out'.op \in {"delete", "update"}
         /\ out'.caller.id \in DOMAIN users
         /\ users[out'.caller.id].active
         /\ ~users'[out'.caller.id].active)
      ]_vars

AdminOps == {"list", "create", "update", "delete"}

\* C28: a list, create, update or deactivate request whose caller is MANAGER
\* or STAFF is answered 403 Forbidden in its first step and leaves the users
\* table as it was; no such request is ever waiting for the database.
C28_ManagerStaffForbidden ==
    [][/\ (/\ out' # out
           /\ out'.op \in AdminOps
           /\ out'.caller.role \in {"MANAGER", "STAFF"}) =>
                /\ out'.resp.status = 403
                /\ out'.resp.message = "Forbidden"
                /\ out'.resp.user = <<>>
                /\ users' = users
                /\ req' = req
       /\ \A s \in Slots :
            req'[s].op \in AdminOps =>
                req'[s].caller.role \notin {"MANAGER", "STAFF"}
      ]_vars

\* C28 witness: a MANAGER has asked for an update and has been refused, in a
\* state where the table differs from the seed.
C28_Witness ==
    /\ Answered("update")
    /\ out.caller.role = "MANAGER"
    /\ out.resp.status = 403
    /\ users # AdminUsers

\* The list is there, is not empty, and validateImport finds nothing wrong
\* with any of its items.
Importable(body) ==
    /\ body.products # <<>>
    /\ Len(body.products[1]) > 0
    /\ \A i \in 1..Len(body.products[1]) :
            body.products[1][i].product.faults = <<>>

\* C29: POST /products/import enqueues a job if and only if the list is not
\* empty and every item passes validateImport: then it adds exactly one job,
\* holding all the submitted products in their order, and answers 202;
\* otherwise it answers 400 and the queue is as it was.
C29_ImportEnqueuesIffValid ==
    [][(out'.op = "import" /\ (out' # out \/ jobs' # jobs)) =>
            IF Importable(out'.body)
            THEN /\ Len(jobs') = Len(jobs) + 1
                 /\ SubSeq(jobs', 1, Len(jobs)) = jobs
                 /\ jobs'[Len(jobs')].products = out'.body.products[1]
                 /\ out'.resp.status = 202
                 /\ out'.resp.jobId = jobs'[Len(jobs')].id
                 /\ out'.resp.count = Len(out'.body.products[1])
            ELSE /\ jobs' = jobs
                 /\ out'.resp.status = 400
      ]_vars

\* C29 witness: after an import has been queued, a list whose first item is
\* valid and whose second is not has been answered 400.
C29_Witness ==
    /\ out.op = "import"
    /\ out.resp.status = 400
    /\ out.body.products # <<>>
    /\ Len(out.body.products[1]) = 2
    /\ out.body.products[1][1].product.faults = <<>>
    /\ Len(out.resp.details) = 1
    /\ Len(jobs) > 0

\* C30: for the signed-in role and the layout mode, every item returned by
\* getNavItemsForRole leads to a route that renders its page and does not
\* redirect; so /create-staff is among the items only for a role that
\* RequireRole admits.
C30_NavAgreesWithGuards ==
    webUser # <<>> =>
        LET items == getNavItemsForRole(webUser[1].role, compactMode)
        IN  \A i \in 1..Len(items) :
                /\ items[i].to \in AppRoutes
                /\ Element(items[i].to, webUser) = Page(items[i].to)

====
